---- MODULE Spec2Model ----
(***************************************************************************)
(* Popuinatlas: the derived-statistics functions of utils.py               *)
(* (_coerce_bool_official, build_country_language_stats,                   *)
(* build_global_language_stats) and the official/other split of the        *)
(* Country Explorer and Language Explorer pages.                           *)
(*                                                                         *)
(* A data frame is a record [cols, rows]: the set of its column headers    *)
(* and the sequence of its rows.  A cell that pandas holds as a Python     *)
(* object is a record [k, s, n]: k is its kind ("str", "int", "bool",      *)
(* "nan"), s its characters when it is a string, n its number when it is   *)
(* an int (or 0/1 for a bool).  Strings that the code only compares        *)
(* (country codes, language names, headers) are TLA+ strings.  A value     *)
(* that may be absent (NaN) is <<>> when absent and <<v>> when present.    *)
(* Entropies are fixed-point numbers in units of 1/100000.                 *)
(*                                                                         *)
(* The data loading (get_data and the scripts that call it) works on       *)
(* frames as objects: a frame read from a file is a record [file, obj],    *)
(* obj numbering the load that created the object.                         *)
(*                                                                         *)
(* The selection of the Country Explorer (selected_iso3, the sidebar       *)
(* selectbox, the map's click component) is modelled run by run: a user    *)
(* event and the script run it starts are one step.                        *)
(***************************************************************************)
EXTENDS Integers, Sequences, FiniteSets, TLC

VARIABLES countries, langs, stats, global_lang, is_off, page_official,
          files, read_cache, session_state, loads, run,
          selected_iso3, selectbox, clicked, map_iso, render

vars == <<countries, langs, stats, global_lang, is_off, page_official,
          files, read_cache, session_state, loads, run,
          selected_iso3, selectbox, clicked, map_iso, render>>

\* The variables of the derived statistics, and those of the data loading
stats_vars == <<countries, langs, stats, global_lang, is_off, page_official>>
session_vars == <<files, read_cache, session_state, loads, run>>

\* The variables of the Country Explorer's selection: the session values
\* selected_iso3 and country_selectbox_country_explorer, the value of the
\* map's click component, the country highlighted on the map last drawn, and
\* the outcome of the last run of the page
explorer_vars == <<selected_iso3, selectbox, clicked, map_iso, render>>

\* Longest language table drawn.
MaxRows == 3

-----------------------------------------------------------------------------
\* Values

NaN == <<>>
Some(v) == <<v>>

StrCell(s) == [k |-> "str", s |-> s, n |-> 0]
IntCell(n) == [k |-> "int", s |-> <<>>, n |-> n]
BoolCell(b) == [k |-> "bool", s |-> <<>>, n |-> IF b THEN 1 ELSE 0]
NaNCell == [k |-> "nan", s |-> <<>>, n |-> 0]

RECURSIVE SumSeq(_)
SumSeq(s) == IF s = <<>> THEN 0 ELSE Head(s) + SumSeq(Tail(s))

Range(s) == {s[i] : i \in DOMAIN s}

-----------------------------------------------------------------------------
\* Python str methods, on sequences of characters

LowerLetters == <<"a","b","c","d","e","f","g","h","i","j","k","l","m",
                  "n","o","p","q","r","s","t","u","v","w","x","y","z">>
UpperLetters == <<"A","B","C","D","E","F","G","H","I","J","K","L","M",
                  "N","O","P","Q","R","S","T","U","V","W","X","Y","Z">>
DigitChars == <<"0","1","2","3","4","5","6","7","8","9">>

UpperChar(c) ==
    IF \E i \in DOMAIN LowerLetters : LowerLetters[i] = c
    THEN UpperLetters[CHOOSE i \in DOMAIN LowerLetters : LowerLetters[i] = c]
    ELSE c

\* str.upper()
upper(s) == [i \in DOMAIN s |-> UpperChar(s[i])]

IsSpace(c) == c = " "

RECURSIVE lstrip(_)
lstrip(s) == IF s # <<>> /\ IsSpace(Head(s)) THEN lstrip(Tail(s)) ELSE s

RECURSIVE rstrip(_)
rstrip(s) ==
    IF s # <<>> /\ IsSpace(s[Len(s)]) THEN rstrip(SubSeq(s, 1, Len(s) - 1)) ELSE s

\* str.strip()
strip(s) == rstrip(lstrip(s))

\* str(n) of a non-negative int
RECURSIVE IntToStr(_)
IntToStr(n) ==
    IF n < 10 THEN <<DigitChars[n + 1]>>
    ELSE IntToStr(n \div 10) \o <<DigitChars[(n % 10) + 1]>>

\* str(x) of a cell, as Series.astype(str) applies it to each element
astype_str(v) ==
    CASE v.k = "str" -> v.s
      [] v.k = "int" -> IntToStr(v.n)
      [] v.k = "bool" -> IF v.n = 1 THEN <<"T","r","u","e">> ELSE <<"F","a","l","s","e">>
      [] OTHER -> <<"n","a","n">>

-----------------------------------------------------------------------------
\* utils.py: _coerce_bool_official

\* The dtype pandas gives a column holding these cells: bool when every cell
\* is a bool, a numeric dtype when every cell is a number or NaN, object
\* as soon as one cell is a string or the kinds are mixed.
dtype(series) ==
    IF series = <<>> THEN "object"
    ELSE IF \A i \in DOMAIN series : series[i].k = "bool" THEN "bool"
    ELSE IF \A i \in DOMAIN series : series[i].k \in {"int", "nan"}
         THEN IF \E i \in DOMAIN series : series[i].k = "nan" THEN "float64" ELSE "int64"
    ELSE "object"

\* .replace({"TRUE":"T","FALSE":"F","YES":"T","NO":"F"})
replace_tokens(s) ==
    CASE s = <<"T","R","U","E">> -> <<"T">>
      [] s = <<"F","A","L","S","E">> -> <<"F">>
      [] s = <<"Y","E","S">> -> <<"T">>
      [] s = <<"N","O">> -> <<"F">>
      [] OTHER -> s

\* bool(x) of a numeric or bool element: non-zero is True, NaN is True
astype_bool(v) == IF v.k = "nan" THEN TRUE ELSE v.n # 0

_coerce_bool_official(series) ==
    IF dtype(series) = "object"
    THEN [i \in DOMAIN series |->
            replace_tokens(upper(strip(astype_str(series[i]))))
                \in {<<"T">>, <<"1">>, <<"Y">>}]
    ELSE [i \in DOMAIN series |-> astype_bool(series[i])]

-----------------------------------------------------------------------------
\* pandas helpers used by the two build functions

Column(rows, f) == [i \in DOMAIN rows |-> rows[i][f]]

\* Country codes in sorted order (groupby sorts its keys).
CodeOrder == <<"AAA", "AAA ", "BBB", "CCC">>

\* Language names in sorted order (capitals sort before small letters).
LanguageOrder == <<"Dutch", "English", "english">>

\* The keys of groupby("CountryCode"): the distinct codes of the rows, in
\* sorted order.  CountryCode is the identifying field of a language row and
\* is never missing in the tables drawn here, so dropna makes no difference.
GroupKeys(rows) ==
    SelectSeq(CodeOrder, LAMBDA c : \E i \in DOMAIN rows : rows[i].CountryCode = c)

GroupRows(rows, key) == SelectSeq(rows, LAMBDA r : r.CountryCode = key)

\* SeriesGroupBy.count(): the values of the group, repeated ones included
nunique_count(values) == Len(values)

\* SeriesGroupBy.nunique(): distinct values of the group
nunique(values) == Cardinality(Range(values))

\* pd.to_numeric(x, errors="coerce") of one cell: a number, or absent
RECURSIVE ParseDigits(_, _)
ParseDigits(s, acc) ==
    IF s = <<>> THEN Some(acc)
    ELSE IF \E d \in DOMAIN DigitChars : DigitChars[d] = Head(s)
         THEN ParseDigits(Tail(s),
                  10 * acc + (CHOOSE d \in DOMAIN DigitChars : DigitChars[d] = Head(s)) - 1)
         ELSE NaN

to_numeric(v) ==
    CASE v.k = "int" -> Some(v.n)
      [] v.k = "bool" -> Some(v.n)
      [] v.k = "str" -> IF strip(v.s) = <<>> THEN NaN ELSE ParseDigits(strip(v.s), 0)
      [] OTHER -> NaN

-----------------------------------------------------------------------------
\* utils.py: build_country_language_stats

\* round(100000 * ln(n)) for n = 10, 20, ..., 500 (np.log, to five decimals)
LnBy10 == <<230259, 299573, 340120, 368888, 391202, 409434, 424850, 438203, 449981, 460517,
            470048, 478749, 486753, 494164, 501064, 507517, 513580, 519296, 524702, 529832,
            534711, 539363, 543808, 548064, 552146, 556068, 559842, 563479, 566988, 570378,
            573657, 576832, 579909, 582895, 585793, 588610, 591350, 594017, 596615, 599146,
            601616, 604025, 606379, 608677, 610925, 613123, 615273, 617379, 619441, 621461>>

\* np.log, on the numbers that occur (multiples of 10)
np_log(n) == LnBy10[n \div 10]

\* -(p * log(p)) for p = pct / 100.0, times 100: pct * (log(100) - log(pct))
EntropyTerm(pct) == pct * (np_log(100) - np_log(pct))

\* 0.0 for an empty selection where the code returns NaN
_entropy_zero(pcts) ==
    LET p == SelectSeq(pcts, LAMBDA x : x > 0)
    IN  Some(SumSeq([i \in DOMAIN p |-> EntropyTerm(p[i])]) \div 100)

\* _entropy(p) of lines 187-189, on the percentages of one group (p = pct/100):
\* keep p > 0, then -(p * log(p)).sum(), NaN when nothing is left.
_entropy(pcts) ==
    LET p == SelectSeq(pcts, LAMBDA x : x > 0)
    IN  IF Len(p) > 0
        THEN Some(SumSeq([i \in DOMAIN p |-> EntropyTerm(p[i])]) \div 100)
        ELSE NaN

\* Headers that the best-effort search of line 159 accepts as the language column
LanguageLike == {"Language", "language", "Lang", "lang"}

\* lines 155-161: the renames of the language frame's headers
RenameLangCols(cols) ==
    LET c1 == IF "CountryCode" \notin cols /\ "Code" \in cols
              THEN (cols \ {"Code"}) \cup {"CountryCode"}
              ELSE cols
        cand == c1 \cap LanguageLike
    IN  IF "Language" \notin c1 /\ cand # {}
        THEN (c1 \ {CHOOSE x \in cand : TRUE}) \cup {"Language"}
        ELSE c1

\* lines 199-200: the rename of the countries frame's code header
RenameCountryCols(cols) ==
    IF "Code" \notin cols /\ "CountryCode" \in cols
    THEN (cols \ {"CountryCode"}) \cup {"Code"}
    ELSE cols

\* The renames done in place on the frame the caller passed
FrameAfterCall_inplace(df, renamed) == [df EXCEPT !.cols = renamed]

\* lines 149-150, 156, 161, 200: the function works on countries.copy() and
\* langs.copy(), and rename returns a new frame that is bound to the local
\* name: the frame the caller passed is after the call what it was before
FrameAfterCall(df, renamed) == df

\* lines 172-178: n_official of one country before fillna: the sum of the
\* resolved flags over the rows of the country, absent without the column
NOfficial(cols, rows, code) ==
    IF "IsOfficial" \in cols
    THEN LET off == _coerce_bool_official(Column(rows, "IsOfficial"))
         IN  Some(Cardinality({i \in DOMAIN rows : rows[i].CountryCode = code /\ off[i]}))
    ELSE NaN

\* lines 181-196: the entropy of one country
Entropy(cols, rows, code) ==
    IF "Percentage" \in cols
    THEN LET l2 == SelectSeq(rows, LAMBDA r : to_numeric(r.Percentage) # NaN)
             g  == GroupRows(l2, code)
         IN  IF l2 # <<>> /\ g # <<>>
             THEN _entropy([i \in DOMAIN g |-> to_numeric(g[i].Percentage)[1]])
             ELSE NaN
    ELSE NaN

\* lines 204-207: pd.to_numeric(col, errors="coerce").fillna(0) of a count: an
\* absent count becomes a present 0, a present one stays
fillna0(v) == IF v = NaN THEN Some(0) ELSE v

MetaCols == {"Name", "Continent", "Region", "Population"}

\* The metadata of a country without a countries row filled with defaults
NoMeta_filled ==
    [Name |-> Some("Unknown"), Continent |-> Some("Unknown"), Region |-> Some("Unknown"),
     Population |-> Some(0)]

\* lines 198-202: the metadata of an output row before the merge, and after it
\* when no countries row has its code (how="left")
NoMeta == [Name |-> NaN, Continent |-> NaN, Region |-> NaN, Population |-> NaN]

\* The metadata a country row contributes; Population goes through to_numeric (line 210)
MetaOf(keep, crow) ==
    [Name       |-> IF "Name" \in keep THEN crow.Name ELSE NaN,
     Continent  |-> IF "Continent" \in keep THEN crow.Continent ELSE NaN,
     Region     |-> IF "Region" \in keep THEN crow.Region ELSE NaN,
     Population |-> IF "Population" \in keep THEN to_numeric(crow.Population) ELSE NaN]

StatsRow(code, nl, no, ent, meta) ==
    [Code |-> code, n_languages |-> nl, n_official |-> no, entropy |-> ent,
     Name |-> meta.Name, Continent |-> meta.Continent, Region |-> meta.Region,
     Population |-> meta.Population]

RECURSIVE Concat(_)
Concat(ss) == IF ss = <<>> THEN <<>> ELSE Head(ss) \o Concat(Tail(ss))

\* how="outer" where the code merges how="left": the countries without a
\* language row are appended, their counts zero-filled by line 207
MergeLeft_outer(out, keep, crows) ==
    Concat([i \in DOMAIN out |->
        LET m == SelectSeq(crows, LAMBDA cr : cr.Code = out[i].Code)
        IN  IF m = <<>> THEN <<out[i]>>
            ELSE [j \in DOMAIN m |->
                    StatsRow(out[i].Code, out[i].n_languages, out[i].n_official,
                             out[i].entropy, MetaOf(keep, m[j]))]])
    \o LET rest == SelectSeq(crows, LAMBDA cr : \A i \in DOMAIN out : out[i].Code # cr.Code)
       IN  [j \in DOMAIN rest |-> StatsRow(rest[j].Code, 0, Some(0), NaN, MetaOf(keep, rest[j]))]

\* lines 198-202: out.merge(c[keep], on="Code", how="left"): every row of out
\* once per country row with its code, once with absent metadata when none has
MergeLeft(out, keep, crows) ==
    Concat([i \in DOMAIN out |->
        LET m == SelectSeq(crows, LAMBDA cr : cr.Code = out[i].Code)
        IN  IF m = <<>> THEN <<out[i]>>
            ELSE [j \in DOMAIN m |->
                    StatsRow(out[i].Code, out[i].n_languages, out[i].n_official,
                             out[i].entropy, MetaOf(keep, m[j]))]])

NotCalled == [status |-> "none", cols |-> {}, rows |-> <<>>]
Raised(e) == [status |-> e, cols |-> {}, rows |-> <<>>]

Called(result) == result.status # "none"
Returned(result) == result.status = "ok"

build_country_language_stats(c, l) ==
    LET lcols == RenameLangCols(l.cols)
        ccols == RenameCountryCols(c.cols)
        keep  == ccols \cap ({"Code"} \cup MetaCols)
        keys  == GroupKeys(l.rows)
        out   == [i \in DOMAIN keys |->
                    StatsRow(keys[i],
                             nunique(Column(GroupRows(l.rows, keys[i]), "Language")),
                             fillna0(NOfficial(lcols, l.rows, keys[i])),
                             Entropy(lcols, l.rows, keys[i]),
                             NoMeta)]
    IN  IF "CountryCode" \notin lcols \/ "Language" \notin lcols \/ "Code" \notin keep
        THEN Raised("KeyError")
        ELSE [status |-> "ok",
              cols   |-> {"Code", "n_languages", "n_official", "entropy"} \cup keep,
              rows   |-> MergeLeft(out, keep, c.rows)]

-----------------------------------------------------------------------------
\* utils.py: build_global_language_stats

GlobalRow(lang, spoken, official) ==
    [Language |-> lang, countries_spoken |-> spoken, official_countries |-> official]

\* A row count (size) where the code takes nunique
CountriesSpoken_size(rows, lang) ==
    Len(SelectSeq(rows, LAMBDA r : r.Language = lang))

\* line 220: groupby("Language")["CountryCode"].nunique() of one language
CountriesSpoken(rows, lang) ==
    nunique(Column(SelectSeq(rows, LAMBDA r : r.Language = lang), "CountryCode"))

\* The official rows of the language counted where the code counts their
\* distinct country codes
OfficialCountries_rows(cols, rows, lang) ==
    IF "IsOfficial" \in cols
    THEN LET off == _coerce_bool_official(Column(rows, "IsOfficial"))
         IN  Cardinality({j \in DOMAIN rows : rows[j].Language = lang /\ off[j]})
    ELSE 0

\* lines 224-233: the official count of one language: the distinct codes of
\* its rows whose flag resolves true; 0 when it has none or the column is missing
OfficialCountries(cols, rows, lang) ==
    IF "IsOfficial" \in cols
    THEN LET off == _coerce_bool_official(Column(rows, "IsOfficial"))
         IN  Cardinality({rows[i].CountryCode :
                            i \in {j \in DOMAIN rows : rows[j].Language = lang /\ off[j]}})
    ELSE 0

\* line 234: sort_values("countries_spoken", ascending=False) with the default
\* (unstable) quicksort: every order of the rows that is descending in the key
SortValuesDescending(rows) ==
    {[i \in DOMAIN rows |-> rows[p[i]]] : p \in
        {q \in Permutations(DOMAIN rows) :
            \A i, j \in DOMAIN rows :
                i < j => rows[q[i]].countries_spoken >= rows[q[j]].countries_spoken}}

\* The groups restricted to the languages spoken in two countries or more
LanguageKeys_minsupport(rows) ==
    SelectSeq(LanguageOrder,
              LAMBDA g : Cardinality({rows[i].CountryCode :
                                        i \in {j \in DOMAIN rows : rows[j].Language = g}}) >= 2)

\* line 220: the keys of groupby("Language"): the distinct language strings
\* of the rows, compared as they are, in sorted order
LanguageKeys(rows) ==
    SelectSeq(LanguageOrder, LAMBDA g : \E i \in DOMAIN rows : rows[i].Language = g)

GlobalCols == {"Language", "countries_spoken", "official_countries"}

\* The results build_global_language_stats can return (one per tie order)
build_global_language_stats(l) ==
    LET keys == LanguageKeys(l.rows)
        by_lang == [i \in DOMAIN keys |->
                      GlobalRow(keys[i], CountriesSpoken(l.rows, keys[i]),
                                OfficialCountries(l.cols, l.rows, keys[i]))]
    IN  IF "Language" \notin l.cols
        THEN {[status |-> "ok", cols |-> GlobalCols, rows |-> <<>>]}
        ELSE IF "CountryCode" \notin l.cols
        THEN {Raised("KeyError")}
        ELSE {[status |-> "ok", cols |-> GlobalCols, rows |-> r] :
                r \in SortValuesDescending(by_lang)}

-----------------------------------------------------------------------------
\* pages: the official / other split of the Country Explorer and the
\* "only official" filter of the Language Explorer

\* Series.astype(str) of element i: a float64 column prints its numbers as floats
series_astype_str(series, i) ==
    IF dtype(series) = "float64" /\ series[i].k = "int"
    THEN IntToStr(series[i].n) \o <<".", "0">>
    ELSE astype_str(series[i])

\* langs["IsOfficial"].astype(str).str.upper() == "T", "?" without the column
PageIsOfficial(l) ==
    [i \in DOMAIN l.rows |->
        IF "IsOfficial" \in l.cols
        THEN upper(series_astype_str(Column(l.rows, "IsOfficial"), i)) = <<"T">>
        ELSE FALSE]

PageNotRun == [status |-> "none", official |-> <<>>]

\* Country Explorer lines 33-50 and 230: stops on a missing CountryCode or Language
CountryExplorerOfficial(l) ==
    IF "CountryCode" \notin l.cols \/ "Language" \notin l.cols
    THEN [status |-> "stopped", official |-> <<>>]
    ELSE [status |-> "ok", official |-> PageIsOfficial(l)]

\* Language Explorer lines 21-32 and 51: stops on a missing Language, and
\* line 26 raises on a missing CountryCode
LanguageExplorerOfficial(l) ==
    IF "Language" \notin l.cols THEN [status |-> "stopped", official |-> <<>>]
    ELSE IF "CountryCode" \notin l.cols THEN [status |-> "KeyError", official |-> <<>>]
    ELSE [status |-> "ok", official |-> PageIsOfficial(l)]

-----------------------------------------------------------------------------
\* utils.py: _read_csv, get_data; main.py and the pages that load the tables

\* lines 107-108: the session-state keys of the four tables
Keys == {"cities", "countries", "languages", "worldcities"}

\* lines 117-122: the file behind every key
FileOfKey ==
    [cities |-> "city.csv", countries |-> "country.csv",
     languages |-> "countrylanguage.csv", worldcities |-> "worldcities.csv"]

DataFiles == {FileOfKey[k] : k \in Keys}

\* The optional file counted among the required ones
RequiredFiles_withoptional ==
    <<"city.csv", "country.csv", "countrylanguage.csv", "worldcities.csv">>

\* lines 124-129: the required files, in the order the message names them
RequiredFiles == <<"city.csv", "country.csv", "countrylanguage.csv">>

\* The value None, and the frame object that load number n made from a file
None == [file |-> "", obj |-> 0]
Frame(f, n) == [file |-> f, obj |-> n]

\* st.cache_data before any call: no path has an entry, no file was read
EmptyCache == [f \in DataFiles |-> [hit |-> FALSE, frame |-> FALSE, reads |-> 0]]

\* lines 79-83: the cache of _read_csv after a call for path: a first call
\* reads the file if it exists (None otherwise) and keeps the result, a later
\* call has the kept result and reads nothing
_read_csv(cache, fs, path) ==
    IF cache[path].hit
    THEN cache
    ELSE [cache EXCEPT ![path] =
            [hit |-> TRUE, frame |-> path \in fs,
             reads |-> IF path \in fs THEN @.reads + 1 ELSE @.reads]]

\* lines 98-143: a call of get_data in a session whose state is sess, with the
\* cache, the existing files fs and n loads so far: its outcome, the tuple it
\* returns, and the session state, cache and loads after it
get_data(sess, cache, fs, n) ==
    LET c1 == _read_csv(cache, fs, "city.csv")
        c2 == _read_csv(c1, fs, "country.csv")
        c3 == _read_csv(c2, fs, "countrylanguage.csv")
        c4 == _read_csv(c3, fs, "worldcities.csv")
        none == SelectSeq(RequiredFiles, LAMBDA f : ~c4[f].frame)
        missing == [i \in DOMAIN none |-> "data/" \o none[i]]
        table == [k \in Keys |->
                    IF c4[FileOfKey[k]].frame THEN Frame(FileOfKey[k], n + 1) ELSE None]
    IN  IF Keys \subseteq DOMAIN sess
        THEN [status |-> "ok", missing |-> <<>>,
              ret |-> <<sess["cities"], sess["countries"], sess["languages"],
                        sess["worldcities"]>>,
              session |-> sess, cache |-> cache, loads |-> n]
        ELSE IF missing # <<>>
        THEN [status |-> "FileNotFoundError", missing |-> missing, ret |-> <<>>,
              session |-> sess, cache |-> c4, loads |-> n]
        ELSE [status |-> "ok", missing |-> <<>>,
              ret |-> <<table["cities"], table["countries"], table["languages"],
                        table["worldcities"]>>,
              session |-> [k \in DOMAIN sess \cup Keys |->
                             IF k \in Keys THEN table[k] ELSE sess[k]],
              cache |-> c4, loads |-> n + 1]

\* "cities, countries, langs = get_data()" (main.py line 6, Overview line 21,
\* Diversity Insights line 23): unpacking a tuple into three names
UnpackThree(ret) == IF Len(ret) = 3 THEN "ok" ELSE "ValueError"

\* The record of a script run: the session and page, the outcome of its
\* get_data call ("none" when it makes none) and the tuple returned, the
\* outcome of the run and the tables the script holds after loading
ScriptRun(s, p, gd, missing, ret, status, tables) ==
    [session |-> s, page |-> p, get_data |-> gd, missing |-> missing, returned |-> ret,
     status |-> status, tables |-> tables]

NoRun == ScriptRun("", "", "none", <<>>, <<>>, "none", <<>>)

\* The outcome of the loading lines of a script that unpacks get_data()
\* into three names
LoadStatus(r) == IF r.status # "ok" THEN r.status ELSE UnpackThree(r.ret)

-----------------------------------------------------------------------------
\* pages: the selection of the Country Explorer (sidebar selectbox, map click)

\* line 64: the label of a country row, Name + " (" + Code + ")"
LabelOf(crow) == crow.Name[1] \o " (" \o crow.Code \o ")"

\* line 67: iso3_to_label.get(iso): the label of the code, absent for a code
\* that no row has
iso3_to_label(crows, iso) ==
    IF \E i \in DOMAIN crows : crows[i].Code = iso
    THEN Some(LabelOf(crows[CHOOSE i \in DOMAIN crows : crows[i].Code = iso]))
    ELSE NaN

\* line 66: label_to_iso3[label]
label_to_iso3(crows, label) ==
    crows[CHOOSE i \in DOMAIN crows : LabelOf(crows[i]) = label].Code

\* An element of the list plotly_events returns: d.get("location") and
\* d.get("pointNumber"), each absent or present
ClickPayload(loc, pn) == [location |-> loc, pointNumber |-> pn]

\* lines 179-188: the country a click list decodes to, absent when the list
\* is empty, carries neither field, or its point number is out of range
DecodeClick(clks, crows) ==
    IF clks = <<>> THEN NaN
    ELSE IF clks[1].location # NaN THEN clks[1].location
    ELSE IF clks[1].pointNumber # NaN
    THEN IF 0 <= clks[1].pointNumber[1] /\ clks[1].pointNumber[1] < Len(crows)
         THEN Some(crows[clks[1].pointNumber[1] + 1].Code)
         ELSE NaN
    ELSE NaN

\* The outcome of a run of the page: the event that started it, how it
\* ended, and the number of st.rerun() calls it made
Rendering(event, status, reruns) == [event |-> event, status |-> status, reruns |-> reruns]

NotRendered == Rendering("none", "none", 0)

\* lines 69-70: the selection the script works with: the first country when
\* the session has none
SelectedOrFirst(sel, crows) == IF sel = NaN THEN crows[1].Code ELSE sel[1]

\* lines 77-78: default_label
DefaultLabel(iso, crows) ==
    IF iso3_to_label(crows, iso) # NaN THEN iso3_to_label(crows, iso)[1] ELSE LabelOf(crows[1])

\* line 190: the click decodes to a country of the table other than the selected one
ClickSelectsAnother(sel, seen, crows) ==
    /\ DecodeClick(seen, crows) # NaN
    /\ iso3_to_label(crows, DecodeClick(seen, crows)[1]) # NaN
    /\ DecodeClick(seen, crows)[1] # SelectedOrFirst(sel, crows)

\* lines 69-193: a run of the script with session selection sel, in which
\* plotly_events returns seen.  Lines 81-84 set the selectbox key to the
\* default label before line 86 instantiates the widget.  On a click that
\* selects another country, line 191 assigns selected_iso3 and line 192
\* assigns the key of the selectbox instantiated at line 86, which Streamlit
\* refuses with StreamlitAPIException: the run ends there, the key keeps the
\* label of line 84 and st.rerun() of line 193 is not reached.
ExplorerScript(sel, seen, crows) ==
    [selected_iso3 |-> IF ClickSelectsAnother(sel, seen, crows)
                       THEN DecodeClick(seen, crows)
                       ELSE Some(SelectedOrFirst(sel, crows)),
     selectbox |-> Some(DefaultLabel(SelectedOrFirst(sel, crows), crows)),
     map_iso |-> Some(SelectedOrFirst(sel, crows)),
     status |-> IF ClickSelectsAnother(sel, seen, crows)
                THEN "StreamlitAPIException" ELSE "rendered",
     reruns |-> 0]

\* lines 167-174: what plotly_events can return in a run: the value its
\* component holds when the figure is the one last drawn; when the figure
\* differs (another country highlighted) the component may also be created
\* anew and return its default, the empty list
SeenClicks(stored, drawn, sel, crows) ==
    IF drawn = Some(SelectedOrFirst(sel, crows)) THEN {stored} ELSE {stored, <<>>}

-----------------------------------------------------------------------------
\* Inputs

AllLangCols == {"CountryCode", "Language", "IsOfficial", "Percentage"}
AllCountryCols == {"Code", "Name", "Continent", "Region", "Population"}

CountryRow(code, name, pop) ==
    [Code |-> code, Name |-> Some(name), Continent |-> Some("Europe"),
     Region |-> Some("West"), Population |-> pop]

\* Country tables: codes are unique; CCC has no language row in any table drawn,
\* BBB is missing from the first table.
CountryTables ==
    {[cols |-> AllCountryCols,
      rows |-> <<CountryRow("AAA", "Aland", IntCell(100)), CountryRow("CCC", "Cland", NaNCell)>>],
     [cols |-> AllCountryCols,
      rows |-> <<CountryRow("AAA", "Aland", IntCell(100)), CountryRow("BBB", "Bland", IntCell(20)),
                 CountryRow("CCC", "Cland", StrCell(<<"n", "/", "a">>))>>]}

LangRow(code, lang, off, pct) ==
    [CountryCode |-> code, Language |-> lang, IsOfficial |-> off, Percentage |-> pct]

\* Every sequence of at most n elements of S
SeqsUpTo(S, n) == UNION {[1..k -> S] : k \in 0..n}

T == StrCell(<<"T">>)
F == StrCell(<<"F">>)

\* Flag encodings: strings, bools, numbers and the missing value
FlagValues ==
    {T, F, StrCell(<<"t">>), StrCell(<<"Y">>), StrCell(<<"Y","e","s">>),
     StrCell(<<"t","r","u","e">>), StrCell(<<"n","o">>), StrCell(<<"1">>),
     StrCell(<<>>), StrCell(<<" ","T"," ">>),
     BoolCell(TRUE), BoolCell(FALSE), IntCell(1), IntCell(0), IntCell(2), NaNCell}

\* Percentage encodings: missing, not a number, zero and positive numbers
PercentageValues ==
    {NaNCell, StrCell(<<"a","b","c">>), IntCell(0), IntCell(20), IntCell(30),
     StrCell(<<"5","0">>), IntCell(100)}

CountRows ==
    {LangRow(c, g, o, NaNCell) : c \in {"AAA", "BBB"}, g \in {"Dutch", "English"}, o \in {T, F}}

EntropyRows ==
    {LangRow("AAA", g, T, p) : g \in {"Dutch", "English"}, p \in PercentageValues}
        \cup {LangRow("BBB", "English", F, p) : p \in PercentageValues}

OfficialRows == {LangRow("AAA", "English", o, NaNCell) : o \in FlagValues}

InitOutputs ==
    /\ stats = NotCalled
    /\ global_lang = NotCalled
    /\ is_off = NaN
    /\ page_official = [p \in {"Country Explorer", "Language Explorer"} |-> PageNotRun]

\* The Country Explorer has not run in the session
InitNoExplorer ==
    /\ selected_iso3 = NaN
    /\ selectbox = NaN
    /\ clicked = <<>>
    /\ map_iso = NaN
    /\ render = NotRendered

\* The browser sessions of the application
Sessions == {"s1", "s2"}

\* The statistics specifications load nothing
InitNoSession ==
    /\ files = DataFiles
    /\ read_cache = EmptyCache
    /\ session_state = [s \in Sessions |-> <<>>]
    /\ loads = 0
    /\ run = NoRun
    /\ InitNoExplorer

FirstCountryTable ==
    CHOOSE t \in CountryTables : Len(t.rows) = 2

\* One-country tables that differ in the encodings of the official flag
InitOfficial ==
    /\ countries = FirstCountryTable
    /\ \E rows \in SeqsUpTo(OfficialRows, MaxRows) : langs = [cols |-> AllLangCols, rows |-> rows]
    /\ InitOutputs
    /\ InitNoSession

\* Tables that differ in country and percentage, with or without the
\* Percentage column
InitEntropy ==
    /\ countries = FirstCountryTable
    /\ \E rows \in SeqsUpTo(EntropyRows, MaxRows), cols \in {AllLangCols, AllLangCols \ {"Percentage"}} :
          langs = [cols |-> cols, rows |-> rows]
    /\ InitOutputs
    /\ InitNoSession

IndepRows ==
    {LangRow(c, "English", o, p) :
        c \in {"AAA", "BBB"}, o \in {F, IntCell(1), NaNCell},
        p \in {IntCell(30), StrCell(<<"a","b","c">>)}}

\* Tables that differ in country and in well-formed and malformed flags and
\* percentages
InitIndep ==
    /\ countries = FirstCountryTable
    /\ \E rows \in SeqsUpTo(IndepRows, MaxRows) : langs = [cols |-> AllLangCols, rows |-> rows]
    /\ InitOutputs
    /\ InitNoSession

SchemaRows ==
    {LangRow(c, g, T, IntCell(100)) : c \in {"AAA", "BBB"}, g \in {"Dutch", "English"}}

\* The header sets of a language frame: the country-code column under its
\* name, under the alias Code, or missing; the language column under its
\* name, under an alias, or missing; with or without the optional columns
SchemaCols ==
    {cc \cup lc \cup oc :
        cc \in {{"CountryCode"}, {"Code"}, {}},
        lc \in {{"Language"}, {"lang"}, {}},
        oc \in {{"IsOfficial", "Percentage"}, {"IsOfficial"}, {"Percentage"}}}

\* Tables that differ in their headers
InitSchema ==
    /\ countries = FirstCountryTable
    /\ \E rows \in SeqsUpTo(SchemaRows, MaxRows), cols \in SchemaCols :
          langs = [cols |-> cols, rows |-> rows]
    /\ InitOutputs
    /\ InitNoSession

\* Language rows whose code is written with and without a trailing blank
JoinRows ==
    {LangRow(c, g, T, NaNCell) : c \in {"AAA", "AAA ", "BBB"}, g \in {"Dutch", "English"}}

\* Tables that differ in the way the country code is written
InitJoin ==
    /\ countries \in CountryTables
    /\ \E rows \in SeqsUpTo(JoinRows, MaxRows) : langs = [cols |-> AllLangCols, rows |-> rows]
    /\ InitOutputs
    /\ InitNoSession

\* Language rows whose flag is a string, a number or missing
FlagRows ==
    {LangRow(c, g, o, NaNCell) :
        c \in {"AAA", "BBB"}, g \in {"Dutch", "English"}, o \in {T, F, IntCell(1), NaNCell}}

\* Tables that differ in country, language and flag encoding
InitFlags ==
    /\ countries = FirstCountryTable
    /\ \E rows \in SeqsUpTo(FlagRows, MaxRows) : langs = [cols |-> AllLangCols, rows |-> rows]
    /\ InitOutputs
    /\ InitNoSession

\* Language rows whose language names differ, two of them in case only
LanguageRows ==
    {LangRow(c, g, o, NaNCell) :
        c \in {"AAA", "BBB"}, g \in {"Dutch", "English", "english"}, o \in {T, F}}

\* Tables that differ in the spelling of the language
InitLanguages ==
    /\ countries = FirstCountryTable
    /\ \E rows \in SeqsUpTo(LanguageRows, MaxRows) :
          langs = [cols |-> AllLangCols, rows |-> rows]
    /\ InitOutputs
    /\ InitNoSession

\* A started application: any of the data files may be missing, nothing is
\* cached, the sessions are new
InitSession ==
    /\ files \in SUBSET DataFiles
    /\ read_cache = EmptyCache
    /\ session_state = [s \in Sessions |-> <<>>]
    /\ loads = 0
    /\ run = NoRun
    /\ InitNoExplorer
    /\ countries = FirstCountryTable
    /\ langs = [cols |-> AllLangCols, rows |-> <<>>]
    /\ stats = NotCalled
    /\ global_lang = NotCalled
    /\ is_off = NaN
    /\ page_official = [p \in {"Country Explorer", "Language Explorer"} |-> PageNotRun]

\* The values the map's click component can send: a location (a code of the
\* table or another one), a point number (in or out of range), or neither
ClickPayloads ==
    {ClickPayload(Some(c), NaN) : c \in {"AAA", "BBB", "CCC", "XXX"}}
        \cup {ClickPayload(NaN, Some(n)) : n \in 0..3}
        \cup {ClickPayload(NaN, NaN)}

\* A session that has its tables and has not opened the Country Explorer; the
\* countries tables drawn are in the order of their labels (line 65)
InitExplorer ==
    /\ countries \in CountryTables
    /\ langs = [cols |-> AllLangCols, rows |-> <<>>]
    /\ InitOutputs
    /\ files = DataFiles
    /\ read_cache = EmptyCache
    /\ session_state = [s \in Sessions |-> <<>>]
    /\ loads = 0
    /\ run = NoRun
    /\ InitNoExplorer

\* Tables that differ in country, language and flag (T/F)
InitCounts ==
    /\ countries \in CountryTables
    /\ \E rows \in SeqsUpTo(CountRows, MaxRows) : langs = [cols |-> AllLangCols, rows |-> rows]
    /\ InitOutputs
    /\ InitNoSession

-----------------------------------------------------------------------------
\* Actions

\* A page calls build_country_language_stats(countries, langs)
BuildCountryLanguageStats ==
    /\ stats' = build_country_language_stats(countries, langs)
    /\ countries' = FrameAfterCall(countries, RenameCountryCols(countries.cols))
    /\ langs' = FrameAfterCall(langs, RenameLangCols(langs.cols))
    /\ UNCHANGED <<global_lang, is_off, page_official, session_vars, explorer_vars>>

\* A page calls build_global_language_stats(langs, countries)
BuildGlobalLanguageStats ==
    /\ global_lang' \in build_global_language_stats(langs)
    /\ UNCHANGED <<countries, langs, stats, is_off, page_official, session_vars, explorer_vars>>

\* _coerce_bool_official(l["IsOfficial"]), as lines 173 and 225 call it
CoerceBoolOfficial ==
    /\ "IsOfficial" \in langs.cols
    /\ is_off' = Some(_coerce_bool_official(Column(langs.rows, "IsOfficial")))
    /\ UNCHANGED <<countries, langs, stats, global_lang, page_official, session_vars, explorer_vars>>

\* A run of the Country Explorer page up to the official / other split
CountryExplorerRun ==
    /\ page_official' =
          [page_official EXCEPT !["Country Explorer"] = CountryExplorerOfficial(langs)]
    /\ UNCHANGED <<countries, langs, stats, global_lang, is_off, session_vars, explorer_vars>>

\* A run of the Language Explorer page with "only official" switched on
LanguageExplorerRun ==
    /\ page_official' =
          [page_official EXCEPT !["Language Explorer"] = LanguageExplorerOfficial(langs)]
    /\ UNCHANGED <<countries, langs, stats, global_lang, is_off, session_vars, explorer_vars>>

\* A run of main.py in session s: line 6 calls get_data and unpacks it; lines
\* 39-43 (after a line 6 that went through) take the three tables of
\* load_data, new objects, and assign them to the session state
MainRun(s) ==
    LET r == get_data(session_state[s], read_cache, files, loads)
        loaded == [k \in Keys \ {"worldcities"} |-> Frame(FileOfKey[k], r.loads + 1)]
    IN  /\ read_cache' = r.cache
        /\ IF LoadStatus(r) = "ok"
           THEN /\ session_state' =
                     [session_state EXCEPT ![s] =
                        [k \in DOMAIN r.session |->
                            IF k \in DOMAIN loaded THEN loaded[k] ELSE r.session[k]]]
                /\ loads' = r.loads + 1
                /\ run' = ScriptRun(s, "main", r.status, r.missing, r.ret, "ok",
                                    <<loaded["cities"], loaded["countries"],
                                      loaded["languages"]>>)
           ELSE /\ session_state' = [session_state EXCEPT ![s] = r.session]
                /\ loads' = r.loads
                /\ run' = ScriptRun(s, "main", r.status, r.missing, r.ret, LoadStatus(r), <<>>)
        /\ UNCHANGED <<files, stats_vars, explorer_vars>>

\* The loading lines of a page that calls get_data and unpacks it into three
\* names, and keeps the three tables when that went through
GetDataPageRun(s, p) ==
    LET r == get_data(session_state[s], read_cache, files, loads)
    IN  /\ read_cache' = r.cache
        /\ session_state' = [session_state EXCEPT ![s] = r.session]
        /\ loads' = r.loads
        /\ run' = ScriptRun(s, p, r.status, r.missing, r.ret, LoadStatus(r),
                            IF LoadStatus(r) = "ok" THEN r.ret ELSE <<>>)
        /\ UNCHANGED <<files, stats_vars, explorer_vars>>

\* A run of the Overview page in session s up to line 24
OverviewRun(s) == GetDataPageRun(s, "Overview")

\* A run of the Diversity Insights page in session s up to line 26
DiversityInsightsRun(s) == GetDataPageRun(s, "Diversity Insights")

\* A run of the City Analytics page in session s up to line 27: it stops
\* when a key is missing and takes its tables from the session state otherwise
CityAnalyticsRun(s) ==
    /\ run' = IF Keys \subseteq DOMAIN session_state[s]
              THEN ScriptRun(s, "City Analytics", "none", <<>>, <<>>, "ok",
                             <<session_state[s]["countries"], session_state[s]["cities"],
                               session_state[s]["worldcities"]>>)
              ELSE ScriptRun(s, "City Analytics", "none", <<>>, <<>>, "stopped", <<>>)
    /\ UNCHANGED <<files, read_cache, session_state, loads, stats_vars, explorer_vars>>

NextSession ==
    \E s \in Sessions :
        \/ MainRun(s)
        \/ OverviewRun(s)
        \/ DiversityInsightsRun(s)
        \/ CityAnalyticsRun(s)

SpecSession == InitSession /\ [][NextSession]_vars

\* A run of the Country Explorer script started by event, with session
\* selection sel and the click component holding stored
RunExplorer(event, sel, stored) ==
    \E seen \in SeenClicks(stored, map_iso, sel, countries.rows) :
        /\ selected_iso3' = ExplorerScript(sel, seen, countries.rows).selected_iso3
        /\ selectbox' = ExplorerScript(sel, seen, countries.rows).selectbox
        /\ map_iso' = ExplorerScript(sel, seen, countries.rows).map_iso
        /\ clicked' = seen
        /\ render' = Rendering(event, ExplorerScript(sel, seen, countries.rows).status,
                               ExplorerScript(sel, seen, countries.rows).reruns)
        /\ UNCHANGED <<stats_vars, session_vars>>

\* The page is opened, or run again by a widget that is not the selectbox
ExplorerPageRun == RunExplorer("run", selected_iso3, clicked)

\* The user picks another label in the selectbox: Streamlit stores it under
\* the key, calls sidebar_changed (lines 74-76) and runs the script
SidebarSelect ==
    /\ render.status # "none"
    /\ \E i \in DOMAIN countries.rows :
          /\ selectbox # Some(LabelOf(countries.rows[i]))
          /\ RunExplorer("sidebar",
                         Some(label_to_iso3(countries.rows, LabelOf(countries.rows[i]))),
                         clicked)

\* The user clicks the map: the component takes the payload as its value and
\* Streamlit runs the script
MapClick ==
    /\ render.status # "none"
    /\ \E d \in ClickPayloads :
          /\ clicked # <<d>>
          /\ RunExplorer("click", selected_iso3, <<d>>)

NextExplorer == ExplorerPageRun \/ SidebarSelect \/ MapClick

SpecExplorer == InitExplorer /\ [][NextExplorer]_vars

NextCounts == BuildCountryLanguageStats \/ BuildGlobalLanguageStats

SpecCounts == InitCounts /\ [][NextCounts]_vars

\* The tables that differ from rows in one row: replaced, added or removed
Variants(rows, RowSet) ==
    {[rows EXCEPT ![i] = r] : i \in DOMAIN rows, r \in RowSet}
        \cup {Append(rows, r) : r \in {x \in RowSet : Len(rows) < MaxRows}}
        \cup {SubSeq(rows, 1, i - 1) \o SubSeq(rows, i + 1, Len(rows)) : i \in DOMAIN rows}

\* A further call of build_country_language_stats, on a language table that
\* differs from the one of the previous call in one row
BuildCountryLanguageStatsOnVariant ==
    /\ Called(stats)
    /\ \E v \in Variants(langs.rows, IndepRows) \ {langs.rows} :
          /\ langs' = [langs EXCEPT !.rows = v]
          /\ stats' = build_country_language_stats(countries, langs')
    /\ UNCHANGED <<countries, global_lang, is_off, page_official, session_vars, explorer_vars>>

NextIndep == BuildCountryLanguageStats \/ BuildCountryLanguageStatsOnVariant

SpecIndep == InitIndep /\ [][NextIndep]_vars

NextJoin == BuildCountryLanguageStats

SpecJoin == InitJoin /\ [][NextJoin]_vars

NextFlags == BuildGlobalLanguageStats

SpecFlags == InitFlags /\ [][NextFlags]_vars

NextLanguages == BuildCountryLanguageStats \/ BuildGlobalLanguageStats

SpecLanguages == InitLanguages /\ [][NextLanguages]_vars

NextSchema == BuildCountryLanguageStats \/ BuildGlobalLanguageStats

SpecSchema == InitSchema /\ [][NextSchema]_vars

NextEntropy == BuildCountryLanguageStats

SpecEntropy == InitEntropy /\ [][NextEntropy]_vars

NextOfficial == CoerceBoolOfficial \/ CountryExplorerRun \/ LanguageExplorerRun

SpecOfficial == InitOfficial /\ [][NextOfficial]_vars

-----------------------------------------------------------------------------
\* Properties of the counts (SpecCounts)

\* The country codes of the language rows with language g
CodesOfLanguage(g) ==
    {langs.rows[i].CountryCode : i \in {j \in DOMAIN langs.rows : langs.rows[j].Language = g}}

\* The country codes that occur in the language table
LangCodes == {langs.rows[i].CountryCode : i \in DOMAIN langs.rows}

\* The country codes that occur in either table
KnownCodes == LangCodes \cup {countries.rows[i].Code : i \in DOMAIN countries.rows}

\* C1 (as claimed): every row output by build_country_language_stats has
\* 0 <= n_official <= n_languages, also when a country has several rows for
\* the same language that are flagged official.
C1_OfficialAtMostLanguages ==
    Returned(stats) =>
        \A i \in DOMAIN stats.rows :
            /\ stats.rows[i].n_official # NaN
            /\ stats.rows[i].n_official[1] >= 0
            /\ stats.rows[i].n_official[1] <= stats.rows[i].n_languages

\* C7: for every language L in the output of build_global_language_stats,
\* countries_spoken(L) is the number of distinct country codes among the input
\* rows whose language is L; several rows of L in one country count once.
C7_CountriesSpokenDistinct ==
    Returned(global_lang) =>
        \A i \in DOMAIN global_lang.rows :
            global_lang.rows[i].countries_spoken
                = Cardinality(CodesOfLanguage(global_lang.rows[i].Language))

\* C7 witness: the global stats were built from a table that holds two rows
\* of one language in the same country and a row of it in another country.
C7_Witness ==
    /\ Returned(global_lang)
    /\ \E i, j, k \in DOMAIN langs.rows :
          /\ i # j
          /\ langs.rows[i].Language = langs.rows[j].Language
          /\ langs.rows[i].CountryCode = langs.rows[j].CountryCode
          /\ langs.rows[k].Language = langs.rows[i].Language
          /\ langs.rows[k].CountryCode # langs.rows[i].CountryCode
          /\ \E r \in DOMAIN global_lang.rows :
                /\ global_lang.rows[r].Language = langs.rows[i].Language
                /\ global_lang.rows[r].countries_spoken = 2

\* C8: the output of build_country_language_stats has exactly one row for
\* each country code that occurs in the language table and no row for any
\* other country: a country with zero language rows is not zero-filled.
C8_OneRowPerLanguageCountry ==
    Returned(stats) =>
        /\ \A c \in LangCodes :
              Cardinality({i \in DOMAIN stats.rows : stats.rows[i].Code = c}) = 1
        /\ \A i \in DOMAIN stats.rows : stats.rows[i].Code \in LangCodes

\* C8 witness: stats were built while the countries table holds a country
\* with no language row and a country with several language rows.
C8_Witness ==
    /\ Returned(stats)
    /\ KnownCodes \ LangCodes # {}
    /\ \E i, j \in DOMAIN langs.rows :
          /\ i # j
          /\ langs.rows[i].CountryCode = langs.rows[j].CountryCode
          /\ \E k \in DOMAIN countries.rows : countries.rows[k].Code = langs.rows[i].CountryCode

-----------------------------------------------------------------------------
\* Properties of the official flag (SpecOfficial)

OfficialTokens ==
    {<<"T">>, <<"T","R","U","E">>, <<"Y">>, <<"Y","E","S">>, <<"1">>}

\* The resolution the claim describes: boolean true and the tokens T, TRUE,
\* Y, YES, 1 in any case (surrounding blanks ignored, the number 1 taken as
\* the token 1); everything else, the missing value included, is not official.
ClaimedOfficial(v) ==
    \/ v.k = "bool" /\ v.n = 1
    \/ v.k = "int" /\ v.n = 1
    \/ v.k = "str" /\ upper(strip(v.s)) \in OfficialTokens

\* C2 (as claimed): _coerce_bool_official resolves a value to true exactly
\* when it is boolean true or one of the tokens T, TRUE, Y, YES, 1, whatever
\* the other values of the column are.
C2_ResolutionAsClaimed ==
    is_off # NaN =>
        \A i \in DOMAIN langs.rows :
            is_off[1][i] = ClaimedOfficial(langs.rows[i].IsOfficial)

\* C3 (as claimed): the Country Explorer and the Language Explorer classify
\* a row as official if and only if _coerce_bool_official does.
C3_PagesAgreeWithCoerce ==
    \A p \in DOMAIN page_official :
        (is_off # NaN /\ page_official[p].status = "ok") =>
            \A i \in DOMAIN langs.rows : page_official[p].official[i] = is_off[1][i]

-----------------------------------------------------------------------------
\* Properties of the entropy (SpecEntropy)

\* round(100000 * log2(n)) for n = 10, 20, ..., 500
Log2By10 == <<332193, 432193, 490689, 532193, 564386, 590689, 612928, 632193, 649185, 664386,
              678136, 690689, 702237, 712928, 722882, 732193, 740939, 749185, 756986, 764386,
              771425, 778136, 784549, 790689, 796578, 802237, 807682, 812928, 817991, 822882,
              827612, 832193, 836632, 840939, 845121, 849185, 853138, 856986, 860733, 864386,
              867948, 871425, 874819, 878136, 881378, 884549, 887652, 890689, 893664, 896578>>

IsDigit(c) == \E d \in DOMAIN DigitChars : DigitChars[d] = c

\* A non-null, numeric, strictly positive percentage
PositivePercentage(v) ==
    \/ v.k = "int" /\ v.n > 0
    \/ /\ v.k = "str"
       /\ v.s # <<>>
       /\ \A i \in DOMAIN v.s : IsDigit(v.s[i])
       /\ \E i \in DOMAIN v.s : v.s[i] # "0"

\* The positive percentages of the rows of a country, in table order
PositivePcts(code) ==
    LET g == SelectSeq(langs.rows,
                       LAMBDA r : r.CountryCode = code /\ PositivePercentage(r.Percentage))
    IN  [i \in DOMAIN g |-> to_numeric(g[i].Percentage)[1]]

\* The entropy of the probabilities pcts[i] / sum(pcts), in the base of the
\* logarithm table
RenormalizedEntropy(pcts, LogBy10) ==
    SumSeq([i \in DOMAIN pcts |->
              pcts[i] * (LogBy10[SumSeq(pcts) \div 10] - LogBy10[pcts[i] \div 10])])
        \div SumSeq(pcts)

\* C4 (as claimed): when the positive percentages of a country do not sum to
\* 100, its entropy is the entropy of the probabilities renormalized to sum
\* to 1 (in nats or in bits): for [30, 20] that of [0.6, 0.4].
C4_EntropyRenormalized ==
    (Returned(stats) /\ "Percentage" \in langs.cols) =>
        \A i \in DOMAIN stats.rows :
            LET p == PositivePcts(stats.rows[i].Code)
            IN  (p # <<>> /\ SumSeq(p) # 100) =>
                    \/ stats.rows[i].entropy = Some(RenormalizedEntropy(p, LnBy10))
                    \/ stats.rows[i].entropy = Some(RenormalizedEntropy(p, Log2By10))

\* C5 (as claimed): entropy is in bits: a country whose percentages are
\* [50, 50] has entropy 1.0 and a country whose only percentage is [100]
\* has entropy 0.0.
C5_EntropyInBits ==
    (Returned(stats) /\ "Percentage" \in langs.cols) =>
        \A i \in DOMAIN stats.rows :
            LET p == PositivePcts(stats.rows[i].Code)
            IN  /\ p = <<50, 50>> => stats.rows[i].entropy = Some(100000)
                /\ p = <<100>> => stats.rows[i].entropy = Some(0)

\* C6: a country's entropy is present if and only if at least one of its
\* language rows has a non-null, numeric, strictly positive percentage;
\* otherwise it is absent (NaN), never 0.
C6_EntropyPresentIffPositive ==
    Returned(stats) =>
        \A i \in DOMAIN stats.rows :
            stats.rows[i].entropy # NaN
                <=> /\ "Percentage" \in langs.cols
                    /\ \E j \in DOMAIN langs.rows :
                          /\ langs.rows[j].CountryCode = stats.rows[i].Code
                          /\ PositivePercentage(langs.rows[j].Percentage)

\* C6 witness: stats were built for a country with a positive percentage,
\* whose entropy is present, and for a country whose percentages are zero,
\* missing or not numbers, whose entropy is absent.
C6_Witness ==
    /\ Returned(stats)
    /\ "Percentage" \in langs.cols
    /\ \E i, j \in DOMAIN stats.rows :
          /\ stats.rows[i].entropy # NaN
          /\ stats.rows[j].entropy = NaN
          /\ \E k \in DOMAIN langs.rows :
                /\ langs.rows[k].CountryCode = stats.rows[j].Code
                /\ langs.rows[k].Percentage = IntCell(0)

-----------------------------------------------------------------------------
\* Independence of the countries (SpecIndep)

\* The output row(s) of a country
StatsOf(result, code) == SelectSeq(result.rows, LAMBDA r : r.Code = code)

\* C9 (as claimed): the stats of a country depend only on its own language
\* rows: two tables with the same rows for a country, differing in the rows
\* of other countries, give the same output row for it.
C9_StatsDependOnOwnRows ==
    [][(Returned(stats) /\ Returned(stats')) =>
          \A c \in LangCodes :
              GroupRows(langs.rows, c) = GroupRows(langs'.rows, c)
                  => StatsOf(stats, c) = StatsOf(stats', c)]_vars

-----------------------------------------------------------------------------
\* Missing identifying columns (SpecSchema)

LacksCountryCode == "CountryCode" \notin langs.cols /\ "Code" \notin langs.cols
LacksLanguage == langs.cols \cap LanguageLike = {}

\* C10 (as claimed): both build functions signal an error, and return no
\* table, whenever the language table lacks the country-code column or the
\* language column.
C10_BothFailFast ==
    (LacksCountryCode \/ LacksLanguage) =>
        /\ Called(stats) => stats.status = "KeyError"
        /\ Called(global_lang) => global_lang.status = "KeyError"

-----------------------------------------------------------------------------
\* Properties of build_country_language_stats on tables that lack an optional
\* column (SpecSchema)

\* C11 (as claimed): when the language table has no IsOfficial column
\* (respectively no Percentage column) and has its required columns,
\* build_country_language_stats does not raise, and n_official (respectively
\* entropy) is absent in every output row, not defaulted to zero.
C11_OptionalFieldAbsent ==
    (Called(stats) /\ ~LacksCountryCode /\ ~LacksLanguage) =>
        /\ Returned(stats)
        /\ "IsOfficial" \notin langs.cols =>
                \A i \in DOMAIN stats.rows : stats.rows[i].n_official = NaN
        /\ "Percentage" \notin langs.cols =>
                \A i \in DOMAIN stats.rows : stats.rows[i].entropy = NaN

-----------------------------------------------------------------------------
\* Order of the rows of build_global_language_stats (SpecCounts)

\* C12 (as claimed): the rows returned by build_global_language_stats are
\* ordered by countries_spoken descending, and rows that tie on
\* countries_spoken are ordered by official_countries descending.
C12_TiesByOfficial ==
    Returned(global_lang) =>
        \A i, j \in DOMAIN global_lang.rows :
            i < j =>
                \/ global_lang.rows[i].countries_spoken > global_lang.rows[j].countries_spoken
                \/ /\ global_lang.rows[i].countries_spoken = global_lang.rows[j].countries_spoken
                   /\ global_lang.rows[i].official_countries
                        >= global_lang.rows[j].official_countries

-----------------------------------------------------------------------------
\* Purity of build_country_language_stats (SpecSchema)

-----------------------------------------------------------------------------
\* The join with the country metadata (SpecJoin)

\* str(code).strip() of the country codes drawn
TrimmedCode(code) == IF code = "AAA " THEN "AAA" ELSE code

\* C14 (as claimed): a row of the output carries the metadata of the country
\* whose code equals its own after trimming whitespace and converting both to
\* strings; whitespace around a code does not leave the metadata absent.
C14_JoinOnTrimmedCodes ==
    Returned(stats) =>
        \A i \in DOMAIN stats.rows, j \in DOMAIN countries.rows :
            TrimmedCode(stats.rows[i].Code) = TrimmedCode(countries.rows[j].Code) =>
                /\ stats.rows[i].Name = countries.rows[j].Name
                /\ stats.rows[i].Name # NaN

-----------------------------------------------------------------------------
\* The official count of build_global_language_stats (SpecFlags)

\* The flags of the language table as _coerce_bool_official resolves them
ResolvedFlags == _coerce_bool_official(Column(langs.rows, "IsOfficial"))

\* The countries in which language g has a row whose flag resolves true
OfficialCodesOf(g) ==
    {c \in LangCodes :
        \E j \in DOMAIN langs.rows :
            /\ langs.rows[j].CountryCode = c
            /\ langs.rows[j].Language = g
            /\ ResolvedFlags[j]}

\* C15: for every language L in the output of build_global_language_stats,
\* official_countries(L) is the number of distinct country codes that have at
\* least one row for L whose official flag resolves to true, and 0 when there
\* is none.
C15_OfficialCountriesDistinct ==
    Returned(global_lang) =>
        \A i \in DOMAIN global_lang.rows :
            global_lang.rows[i].official_countries
                = Cardinality(OfficialCodesOf(global_lang.rows[i].Language))

\* One language has two official rows in the same country and counts it once,
\* another language has no official row and counts 0
C15_Witness ==
    /\ Returned(global_lang)
    /\ \E i, k \in DOMAIN global_lang.rows :
          /\ global_lang.rows[i].official_countries = 1
          /\ Cardinality({j \in DOMAIN langs.rows :
                            /\ langs.rows[j].Language = global_lang.rows[i].Language
                            /\ ResolvedFlags[j]}) = 2
          /\ global_lang.rows[k].official_countries = 0

-----------------------------------------------------------------------------
\* Countries of the language table that the countries table lacks (SpecCounts)

\* The country codes of the countries table
CountryCodes == {countries.rows[i].Code : i \in DOMAIN countries.rows}

\* The rows of the language table for country c
LangRowsOf(c) == {j \in DOMAIN langs.rows : langs.rows[j].CountryCode = c}

\* C16: a country code that occurs in the language table but not in the
\* countries table has exactly one row in the output of
\* build_country_language_stats, with n_languages and n_official computed from
\* its language rows and with Name, Continent, Region and Population absent.
C16_OrphanCodeKeepsRow ==
    Returned(stats) =>
        \A c \in LangCodes \ CountryCodes :
            /\ Cardinality({i \in DOMAIN stats.rows : stats.rows[i].Code = c}) = 1
            /\ \A i \in DOMAIN stats.rows :
                  stats.rows[i].Code = c =>
                    /\ stats.rows[i].n_languages
                         = Cardinality({langs.rows[j].Language : j \in LangRowsOf(c)})
                    /\ stats.rows[i].n_official
                         = Some(Cardinality({j \in LangRowsOf(c) : langs.rows[j].IsOfficial = T}))
                    /\ stats.rows[i].Name = NaN
                    /\ stats.rows[i].Continent = NaN
                    /\ stats.rows[i].Region = NaN
                    /\ stats.rows[i].Population = NaN

\* BBB has language rows and no countries row; its output row counts two
\* languages, next to the row of a country that has its metadata
C16_Witness ==
    /\ Returned(stats)
    /\ "BBB" \in LangCodes \ CountryCodes
    /\ \E i, k \in DOMAIN stats.rows :
          /\ stats.rows[i].Code = "BBB"
          /\ stats.rows[i].n_languages = 2
          /\ stats.rows[i].Name = NaN
          /\ stats.rows[k].Name # NaN

-----------------------------------------------------------------------------
\* The top language of a country (SpecEntropy)

\* The rows of country c whose percentage is a number
NumericRowsOf(c) ==
    {j \in LangRowsOf(c) : to_numeric(langs.rows[j].Percentage) # NaN}

\* The first row of country c that has the highest percentage of the country
FirstTopRow(c) ==
    CHOOSE j \in NumericRowsOf(c) :
        \A k \in NumericRowsOf(c) :
            \/ to_numeric(langs.rows[k].Percentage)[1] < to_numeric(langs.rows[j].Percentage)[1]
            \/ /\ to_numeric(langs.rows[k].Percentage)[1] = to_numeric(langs.rows[j].Percentage)[1]
               /\ j <= k

\* C17 (as claimed): each row output by build_country_language_stats carries
\* top_language and top_pct, the language entry with the highest percentage
\* of that country, and of several entries that share the highest percentage
\* the one that occurs first in the input.
C17_TopLanguageFirstOccurrence ==
    Returned(stats) =>
        /\ {"top_language", "top_pct"} \subseteq stats.cols
        /\ \A i \in DOMAIN stats.rows :
              NumericRowsOf(stats.rows[i].Code) # {} =>
                /\ stats.rows[i].top_language
                     = Some(langs.rows[FirstTopRow(stats.rows[i].Code)].Language)
                /\ stats.rows[i].top_pct
                     = to_numeric(langs.rows[FirstTopRow(stats.rows[i].Code)].Percentage)

-----------------------------------------------------------------------------
\* Distinct languages (SpecLanguages)

\* The language strings that occur in the language table
LangLanguages == {langs.rows[j].Language : j \in DOMAIN langs.rows}

\* C18: the output of build_global_language_stats has exactly one row for
\* each distinct language string of the language table, compared
\* case-sensitively, and no other row; a language that appears in exactly one
\* country is included.
C18_OneRowPerLanguage ==
    Returned(global_lang) =>
        /\ \A g \in LangLanguages :
              Cardinality({i \in DOMAIN global_lang.rows : global_lang.rows[i].Language = g}) = 1
        /\ \A i \in DOMAIN global_lang.rows : global_lang.rows[i].Language \in LangLanguages

\* English and english both occur, each has its own row, and one of the rows
\* is of a language spoken in one country only
C18_Witness ==
    /\ Returned(global_lang)
    /\ {"English", "english"} \subseteq LangLanguages
    /\ \E i, k \in DOMAIN global_lang.rows :
          /\ global_lang.rows[i].Language = "English"
          /\ global_lang.rows[k].Language = "english"
          /\ global_lang.rows[k].countries_spoken = 1
          /\ Cardinality(CodesOfLanguage("english")) = 1

\* C19: for every row output by build_country_language_stats, n_languages is
\* the number of distinct language values, compared exactly and
\* case-sensitively, among the language rows of that country.
C19_LanguagesDistinct ==
    Returned(stats) =>
        \A i \in DOMAIN stats.rows :
            stats.rows[i].n_languages
                = Cardinality({langs.rows[j].Language : j \in LangRowsOf(stats.rows[i].Code)})

\* A country has three rows, two of them for the same language and one for a
\* language that differs from it in case only, and counts two languages
C19_Witness ==
    /\ Returned(stats)
    /\ \E i \in DOMAIN stats.rows :
          /\ stats.rows[i].n_languages = 2
          /\ Cardinality(LangRowsOf(stats.rows[i].Code)) = 3
          /\ {langs.rows[j].Language : j \in LangRowsOf(stats.rows[i].Code)}
                = {"English", "english"}

-----------------------------------------------------------------------------
\* Loading once per session (SpecSession)

\* The tables a session holds, in the order get_data returns them
SessionTables(s) ==
    <<session_state[s]["cities"], session_state[s]["countries"],
      session_state[s]["languages"], session_state[s]["worldcities"]>>

\* C20 (as claimed): in a session whose get_data has succeeded, no file is
\* read again, the session-state entries cities, countries and languages are
\* never reassigned, every later get_data call returns the tables held in the
\* session state, and every later page run ends holding tables of the
\* session state.
C20_LoadedOncePerSession ==
    [][\A s \in Sessions :
         Keys \subseteq DOMAIN session_state[s] =>
            /\ \A f \in DataFiles : read_cache'[f].reads = read_cache[f].reads
            /\ \A k \in {"cities", "countries", "languages"} :
                  /\ k \in DOMAIN session_state'[s]
                  /\ session_state'[s][k] = session_state[s][k]
            /\ (run' # run /\ run'.session = s) =>
                  /\ run'.get_data # "none" =>
                        /\ run'.get_data = "ok"
                        /\ run'.returned = SessionTables(s)
                  /\ run'.status = "ok"
                  /\ \A i \in DOMAIN run'.tables :
                        \E j \in DOMAIN SessionTables(s) :
                            run'.tables[i] = SessionTables(s)[j]]_vars

-----------------------------------------------------------------------------
\* Missing data files (SpecSession)

\* The names the error message gives to the required files that do not exist
MissingNames ==
    LET f == SelectSeq(<<"city.csv", "country.csv", "countrylanguage.csv">>,
                       LAMBDA x : x \notin files)
    IN  [i \in DOMAIN f |-> "data/" \o f[i]]

\* C21: when a required data file (city.csv, country.csv,
\* countrylanguage.csv) is missing, a get_data call raises FileNotFoundError
\* naming every missing required file, and no session holds any of the four
\* keys; when none is missing the call succeeds whether or not
\* worldcities.csv exists, the session then holds all four keys, and
\* worldcities is None when its file is missing.
C21_MissingFilesReported ==
    /\ MissingNames # <<>> =>
          /\ \A s \in Sessions : DOMAIN session_state[s] \cap Keys = {}
          /\ run.get_data # "none" =>
                /\ run.get_data = "FileNotFoundError"
                /\ run.missing = MissingNames
    /\ (MissingNames = <<>> /\ run.get_data # "none") =>
          /\ run.get_data = "ok"
          /\ Keys \subseteq DOMAIN session_state[run.session]
          /\ "worldcities.csv" \notin files <=>
                session_state[run.session]["worldcities"] = None

\* A get_data call has raised with two required files missing while
\* worldcities.csv exists
C21_Witness ==
    /\ run.get_data = "FileNotFoundError"
    /\ Len(run.missing) = 2
    /\ "worldcities.csv" \in files
    /\ session_state[run.session] = <<>>

-----------------------------------------------------------------------------
\* The selection of the Country Explorer (SpecExplorer)

\* C22 (as claimed): after any sequence of sidebar selections and map clicks
\* in the Country Explorer, selected_iso3 is a code of the countries table,
\* and the selectbox the page has rendered has the label of selected_iso3 as
\* its value.
C22_SelectionInSync ==
    render.status # "none" =>
        /\ selected_iso3 # NaN
        /\ iso3_to_label(countries.rows, selected_iso3[1]) # NaN
        /\ selectbox = iso3_to_label(countries.rows, selected_iso3[1])

\* C23 (as claimed): a map click in the Country Explorer triggers at most
\* one rerun and the rendering completes: a click whose decoded country is
\* unknown or is the selected one changes no session state and triggers no
\* rerun, and a click on another country selects it, triggers one rerun that
\* triggers no further one, and ends with the page rendered.
C23_ClickRerunsAtMostOnce ==
    [][render'.event = "click" =>
          /\ render'.reruns <= 1
          /\ render'.status = "rendered"
          /\ IF ClickSelectsAnother(selected_iso3, clicked', countries.rows)
             THEN /\ selected_iso3' = DecodeClick(clicked', countries.rows)
                  /\ selectbox' = iso3_to_label(countries.rows, selected_iso3'[1])
                  /\ render'.reruns = 1
             ELSE /\ selected_iso3' = selected_iso3
                  /\ selectbox' = selectbox
                  /\ render'.reruns = 0]_vars

====
